---- MODULE Spec2Model ----
(***************************************************************************)
(* Model of final_running_garch_app.py: the batch that reads a sheet of    *)
(* prices, fits GARCH(1,1)-t per asset, rebuilds the conditional variance  *)
(* path, maps it to 99% VaR and writes the five-sheet report.              *)
(*                                                                         *)
(* Numbers.  Reals are held as exact rationals [n, d] in lowest terms      *)
(* (d > 0); NaN is [n |-> 0, d |-> 0].  Prices are powers of two, so that  *)
(* the logarithm of a price ratio is exact; a return, 100*ln(p/q), is held *)
(* in units of 100*ln(2), and variances in the square of that unit.        *)
(* sqrt(x) is held as the surd coef*sqrt(rad).                             *)
(***************************************************************************)
EXTENDS Integers, Sequences, FiniteSets, TLC

\* ------------------------------------------------------------------------
\* Program constants
\* ------------------------------------------------------------------------
MinObs == 100       \* "if len(series) < 100", "if len(ret) < 100", "[:100]"
SeedIdx == 99       \* "sigma2[99] = ..." (0-based)
MarkerRow == 101    \* "ws.set_row(101, None, blue_fmt)" (0-based sheet row)

\* ------------------------------------------------------------------------
\* Bounds of the model
\* ------------------------------------------------------------------------
Extra == 3          \* the sheet has MinObs + Extra data rows
MaxLead == 3        \* a column starts with 0..MaxLead placeholder cells
MaxGap == 1         \* a column has 0..MaxGap missing cells in its middle
GapRow == 50        \* first sheet row (1-based) of the interior gap
NRows == MinObs + Extra
Assets == <<"A", "B">>

\* ------------------------------------------------------------------------
\* Exact arithmetic
\* ------------------------------------------------------------------------
Abs(x) == IF x < 0 THEN -x ELSE x

RECURSIVE Gcd(_, _)
Gcd(a, b) == IF b = 0 THEN a ELSE Gcd(b, a % b)

NaN == [n |-> 0, d |-> 0]
IsNaN(x) == x.d = 0

R(n, d) ==
    LET s == IF d < 0 THEN -1 ELSE 1
        g == Gcd(Abs(n), Abs(d))
    IN  [n |-> (s * n) \div g, d |-> (s * d) \div g]

Zero == [n |-> 0, d |-> 1]
One == [n |-> 1, d |-> 1]

RNeg(x) == [n |-> -x.n, d |-> x.d]
\* the sum over the least common denominator
RAdd(x, y) ==
    IF IsNaN(x) \/ IsNaN(y) THEN NaN
    ELSE IF x.d = 1 /\ y.d = 1 THEN [n |-> x.n + y.n, d |-> 1]
    ELSE LET g == Gcd(x.d, y.d)
         IN  R(x.n * (y.d \div g) + y.n * (x.d \div g), (x.d \div g) * y.d)
RSub(x, y) == RAdd(x, RNeg(y))
RMul(x, y) ==
    IF IsNaN(x) \/ IsNaN(y) THEN NaN
    ELSE IF x.d = 1 /\ y.d = 1 THEN [n |-> x.n * y.n, d |-> 1]
    ELSE R(x.n * y.n, x.d * y.d)
\* the divisor is never zero in this model (prices are positive)
RDiv(x, y) == IF IsNaN(x) \/ IsNaN(y) THEN NaN ELSE R(x.n * y.d, x.d * y.n)
\* comparisons with NaN are false, as in IEEE arithmetic
RLt(x, y) == ~IsNaN(x) /\ ~IsNaN(y) /\ x.n * y.d < y.n * x.d
RLe(x, y) == ~IsNaN(x) /\ ~IsNaN(y) /\ x.n * y.d <= y.n * x.d

\* log2 of a positive rational that is a power of two
RECURSIVE Log2(_)
Log2(x) ==
    IF x.n = x.d THEN 0
    ELSE IF x.n > x.d THEN 1 + Log2(R(x.n, 2 * x.d))
    ELSE Log2(R(2 * x.n, x.d)) - 1

\* 100 * np.log(x), in units of 100*ln(2); NaN stays NaN
Log100(x) == IF IsNaN(x) THEN NaN ELSE R(Log2(x), 1)

\* surds: coef * sqrt(rad)
SurdNaN == [coef |-> NaN, rad |-> NaN]
SIsNaN(s) == IsNaN(s.coef)
\* np.sqrt: NaN for NaN and for a negative argument
Sqrt(x) == IF IsNaN(x) \/ RLt(x, Zero) THEN SurdNaN ELSE [coef |-> One, rad |-> x]
\* scalar * surd
SScale(q, s) == IF SIsNaN(s) \/ IsNaN(q) THEN SurdNaN ELSE [coef |-> RMul(q, s.coef), rad |-> s.rad]
\* sign of a defined surd: -1, 0 or 1
SSign(s) ==
    IF s.rad.n = 0 \/ s.coef.n = 0 THEN 0
    ELSE IF s.coef.n < 0 THEN -1 ELSE 1

\* ------------------------------------------------------------------------
\* The uploaded sheet "Prices": a date column and one column per asset
\* ------------------------------------------------------------------------
Num(p) == [k |-> "num", v |-> p]
DateCell(d) == [k |-> "date", v |-> d]
Dash == [k |-> "dash", v |-> 0]       \* the "-" placeholder
Text == [k |-> "text", v |-> 0]       \* any other non-numeric, non-date token
Empty == [k |-> "empty", v |-> 0]     \* an empty cell

RECURSIVE Pow2(_)
Pow2(e) == IF e = 0 THEN 1 ELSE 2 * Pow2(e - 1)

\* price patterns: 1 is a constant price, 2 a price that moves every day
PriceAt(pat, r) == IF pat = 1 THEN 2 ELSE Pow2((r * r) % 5)

\* pat = 0 is a column made of placeholders only; the interior gap is put in
\* the columns whose price moves
ColumnShapes ==
    {[lead |-> 0, gap |-> 0, pat |-> 0]}
        \cup [lead : 0..MaxLead, gap : {0}, pat : {1}]
        \cup [lead : 0..MaxLead, gap : 0..MaxGap, pat : {2}]

RawColumn(c) ==
    [r \in 1..NRows |->
        IF c.pat = 0 \/ r <= c.lead THEN Dash
        ELSE IF r >= GapRow /\ r < GapRow + c.gap THEN (IF r % 2 = 0 THEN Text ELSE Empty)
        ELSE Num(PriceAt(c.pat, r))]

\* rows whose date cell may hold a token that is no date
BadDateRows == {2, 3}
RawDates(bad) == [r \in 1..NRows |-> IF bad /\ r \in BadDateRows THEN Text ELSE DateCell(r)]

AssetNames == {Assets[j] : j \in 1..Len(Assets)}

Uploads ==
    {[dates |-> RawDates(bad), cols |-> [a \in AssetNames |-> RawColumn(shape[a])]] :
        bad \in BOOLEAN, shape \in [AssetNames -> ColumnShapes]}

\* ------------------------------------------------------------------------
\* pandas: frames and series
\* ------------------------------------------------------------------------
NaT == 0
\* pd.to_datetime(..., errors="coerce")
ToDatetime(cell) == IF cell.k = "date" THEN cell.v ELSE NaT
\* .replace("-", np.nan).apply(pd.to_numeric, errors="coerce")
ToNumeric(cell) == IF cell.k = "num" THEN R(cell.v, 1) ELSE NaN

NoData == [a \in AssetNames |-> <<>>]
\* pd.DataFrame(index=...)
EmptyFrame(index) == [index |-> index, columns |-> <<>>, data |-> NoData]
HasColumn(df, a) == \E j \in 1..Len(df.columns) : df.columns[j] = a

\* raw.replace(...).apply(...).dropna(axis=1, how="all")
CleanPrices(up) ==
    LET index == [r \in 1..NRows |-> ToDatetime(up.dates[r])]
        num == [a \in AssetNames |-> [r \in 1..NRows |-> ToNumeric(up.cols[a][r])]]
        Kept(a) == \E r \in 1..NRows : ~IsNaN(num[a][r])
    IN  [index |-> index,
         columns |-> SelectSeq(Assets, Kept),
         data |-> [a \in AssetNames |-> IF Kept(a) THEN num[a] ELSE <<>>]]

\* df[asset]: a series is a sequence of (label, value)
Column(df, a) == [j \in 1..Len(df.index) |-> [lab |-> df.index[j], val |-> df.data[a][j]]]
NotNaN(e) == ~IsNaN(e.val)
DropNa(s) == SelectSeq(s, NotNaN)
Shift1(s) == [j \in 1..Len(s) |-> [lab |-> s[j].lab, val |-> IF j = 1 THEN NaN ELSE s[j - 1].val]]
\* 100 * np.log(series / series.shift(1)).dropna()
LogReturns(series) ==
    LET sh == Shift1(series)
    IN  DropNa([j \in 1..Len(series) |->
                   [lab |-> series[j].lab, val |-> Log100(RDiv(series[j].val, sh[j].val))]])
Values(s) == [j \in 1..Len(s) |-> s[j].val]

\* positions of the labels of a series: pos[l] is the position of label l,
\* 0 when absent, -1 when the label occurs more than once
RECURSIVE Positions(_, _, _)
Positions(s, j, pos) ==
    IF j > Len(s) THEN pos
    ELSE IF pos[s[j].lab] = 0 THEN Positions(s, j + 1, [pos EXCEPT ![s[j].lab] = j])
    ELSE Positions(s, j + 1, [pos EXCEPT ![s[j].lab] = -1])
LabelPos(s) == Positions(s, 1, [l \in 0..NRows |-> 0])
\* value.index.is_unique
UniqueIndex(s) == LET pos == LabelPos(s) IN \A l \in 0..NRows : pos[l] >= 0
\* df[asset] = series raises when the series cannot be reindexed
SetRaises(df, s) == ~UniqueIndex(s)
\* df[asset] = series: the series reindexed on the frame's index
SetColumn(df, a, s, missing) ==
    LET pos == LabelPos(s)
        col == [r \in 1..Len(df.index) |->
                   IF pos[df.index[r]] > 0 THEN s[pos[df.index[r]]].val ELSE missing]
    IN  [index |-> df.index,
         columns |-> IF HasColumn(df, a) THEN df.columns ELSE Append(df.columns, a),
         data |-> [df.data EXCEPT ![a] = col]]

\* ------------------------------------------------------------------------
\* The numerical core (lines 84-103)
\* ------------------------------------------------------------------------
\* the sum of x[lo..hi]
RECURSIVE SumOf(_, _, _)
SumOf(x, lo, hi) ==
    IF lo > hi THEN Zero
    ELSE IF lo = hi THEN x[lo]
    ELSE LET mid == (lo + hi) \div 2 IN RAdd(SumOf(x, lo, mid), SumOf(x, mid + 1, hi))

\* variant: the unbiased estimator, divisor len(x) - 1
NpVarUnbiased(x) ==
    LET mean == RDiv(SumOf(x, 1, Len(x)), R(Len(x), 1))
        Sq(y) == RMul(y, y)
        dev2 == [j \in 1..Len(x) |-> Sq(RSub(x[j], mean))]
    IN  RDiv(SumOf(dev2, 1, Len(x)), R(Len(x) - 1, 1))

\* np.var(x): mean of the squared deviations from the mean, divisor len(x)
NpVar(x) ==
    LET N == R(Len(x), 1)
        mean == RDiv(SumOf(x, 1, Len(x)), N)
        Sq(y) == RMul(y, y)
        dev2 == [j \in 1..Len(x) |-> Sq(RSub(x[j], mean))]
    IN  RDiv(SumOf(dev2, 1, Len(x)), N)

\* arrays are 0-based in the code: a[t] is At(a, t)
At(a, t) == a[t + 1]
Put(a, t, v) == [a EXCEPT ![t + 1] = v]

\* variant: the squared return of the same day
GarchStepSameDay(om, al, be, r_sq, sigma2, t) ==
    RAdd(RAdd(om, RMul(al, At(r_sq, t))), RMul(be, At(sigma2, t - 1)))

\* variant: the ARCH term subtracted
GarchStepMinus(om, al, be, r_sq, sigma2, t) ==
    RAdd(RSub(om, RMul(al, At(r_sq, t - 1))), RMul(be, At(sigma2, t - 1)))

\* sigma2[t] = om + al * r_sq[t - 1] + be * sigma2[t - 1]
GarchStep(om, al, be, r_sq, sigma2, t) ==
    RAdd(RAdd(om, RMul(al, At(r_sq, t - 1))), RMul(be, At(sigma2, t - 1)))

\* for t in range(100, T): ...
RECURSIVE Recursion(_, _, _, _, _, _)
Recursion(om, al, be, r_sq, sigma2, t) ==
    IF t >= Len(r_sq) THEN sigma2
    ELSE Recursion(om, al, be, r_sq, Put(sigma2, t, GarchStep(om, al, be, r_sq, sigma2, t)), t + 1)

\* the seed: np.var(ret.values[:100])
SeedVariance(vals) == NpVar(SubSeq(vals, 1, MinObs))

\* lines 84-94: the variance path of a return series
Sigma2(vals, om, al, be) ==
    LET T == Len(vals)
        empty == [j \in 1..T |-> NaN]
        seeded == Put(empty, SeedIdx, SeedVariance(vals))
        r_sq == [j \in 1..T |-> RMul(vals[j], vals[j])]
    IN  Recursion(om, al, be, r_sq, seeded, MinObs)

\* stdev = np.sqrt(sigma2)
Stdev(sigma2) == [j \in 1..Len(sigma2) |-> Sqrt(sigma2[j])]

\* variant: the 99th percentile, student_t.ppf(0.99, nu)
TQuantileUpper(nu) ==
    CASE nu = 3 -> R(4541, 1000)
      [] nu = 5 -> R(3365, 1000)
      [] nu = 8 -> R(2896, 1000)

\* student_t.ppf(0.01, nu), to three decimals, for the nu of the model
TQuantile(nu) ==
    CASE nu = 3 -> R(-4541, 1000)
      [] nu = 5 -> R(-3365, 1000)
      [] nu = 8 -> R(-2896, 1000)

\* t_quantile * stdev
Var99(q, stdev) == [j \in 1..Len(stdev) |-> SScale(q, stdev[j])]

\* pd.Series(values, index=ret.index)
WithIndex(vals, ret) == [j \in 1..Len(ret) |-> [lab |-> ret[j].lab, val |-> vals[j]]]

\* ------------------------------------------------------------------------
\* The Model Fitter: arch_model(ret, vol="GARCH", p=1, q=1, dist="t").fit().
\* The fitter's code is not part of the repository, and lines 66-72 take
\* whatever res.params holds: four real scalars, on which the code puts no
\* bound and no check.  The sets below are a stationary fit, a fit with
\* alpha + beta > 1, a fit with a negative alpha and a fit with a negative
\* beta; the other outcome of the call is an exception.
\* ------------------------------------------------------------------------
FitParams ==
    { [omega |-> R(1, 4), alpha |-> R(1, 4), beta |-> R(1, 2), nu |-> 5],
      [omega |-> R(1, 2), alpha |-> R(1, 2), beta |-> R(3, 4), nu |-> 3],
      [omega |-> R(1, 2), alpha |-> R(-1, 2), beta |-> R(1, 2), nu |-> 8],
      [omega |-> One, alpha |-> R(1, 2), beta |-> R(-1, 2), nu |-> 5] }

ParamRow(asset, p) ==
    [Asset |-> asset, Omega |-> p.omega, Alpha |-> p.alpha, Beta |-> p.beta,
     Persistence |-> RAdd(p.alpha, p.beta), Nu |-> p.nu]

\* ------------------------------------------------------------------------
\* State
\* ------------------------------------------------------------------------
VARIABLES
    upload,        \* the uploaded sheet (dates, one raw column per asset)
    pc,            \* "uploaded", "loop" (top of the loop body), "try", "done"
    df_prices,     \* cleaned prices
    all_returns,   \* frame of scaled log returns
    all_stdevs,    \* frame of conditional standard deviations
    all_var_99,    \* frame of 99% VaR
    model_params,  \* list of parameter rows
    i,             \* number of assets the loop has finished
    ret,           \* the return series of the asset being processed
    sigma2,        \* per asset, the array sigma2 built in its iteration
    trace,         \* calls made so far: loop entries, fitter, progress bar
    workbook       \* the sheets written

vars == <<upload, pc, df_prices, all_returns, all_stdevs, all_var_99,
          model_params, i, ret, sigma2, trace, workbook>>

Event(ev, k, val) == [ev |-> ev, i |-> k, val |-> val]

Init ==
    /\ upload \in Uploads
    /\ pc = "uploaded"
    /\ df_prices = EmptyFrame(<<>>)
    /\ all_returns = EmptyFrame(<<>>)
    /\ all_stdevs = EmptyFrame(<<>>)
    /\ all_var_99 = EmptyFrame(<<>>)
    /\ model_params = <<>>
    /\ i = 0
    /\ ret = <<>>
    /\ sigma2 = NoData
    /\ trace = <<>>
    /\ workbook = <<>>

\* lines 23-48: read, clean, make the containers and the progress bar
ReadPrices ==
    /\ pc = "uploaded"
    /\ LET df == CleanPrices(upload)
       IN  /\ df_prices' = df
           /\ all_returns' = EmptyFrame(df.index)
           /\ all_stdevs' = EmptyFrame(df.index)
           /\ all_var_99' = EmptyFrame(df.index)
    /\ model_params' = <<>>
    /\ pc' = "loop"
    /\ UNCHANGED <<upload, i, ret, sigma2, trace, workbook>>

assets == df_prices.columns
asset == assets[i + 1]
\* series = df_prices[asset].dropna()
Series(a) == DropNa(Column(df_prices, a))
\* line 54
ShortSeries(series) == Len(series) < MinObs
\* variant: the second length check is missing
ShortReturnsOff(r) == FALSE

\* line 61
ShortReturns(r) == Len(r) < MinObs
\* variant: the progress value is i / len(assets)
ProgressValueStale(k, n) == R(k, n)

\* progress_bar.progress((i + 1) / len(assets))
ProgressValue(k, n) == R(k + 1, n)
Progress == Event("progress", i + 1, ProgressValue(i, Len(assets)))
Enter == Event("asset", i + 1, Zero)
\* model.fit(disp="off") is called on ret
FitCall == Event("fit", i + 1, R(Len(ret), 1))

\* lines 51-56: the price series is too short
SkipShortSeries ==
    /\ pc = "loop" /\ i < Len(assets)
    /\ ShortSeries(Series(asset))
    /\ trace' = trace \o <<Enter, Progress>>
    /\ i' = i + 1
    /\ UNCHANGED <<upload, pc, df_prices, all_returns, all_stdevs, all_var_99,
                   model_params, ret, sigma2, workbook>>

\* lines 51-63: the return series is too short
SkipShortReturns ==
    /\ pc = "loop" /\ i < Len(assets)
    /\ ~ShortSeries(Series(asset))
    /\ ShortReturns(LogReturns(Series(asset)))
    /\ trace' = trace \o <<Enter, Progress>>
    /\ i' = i + 1
    /\ UNCHANGED <<upload, pc, df_prices, all_returns, all_stdevs, all_var_99,
                   model_params, ret, sigma2, workbook>>

\* lines 51-65: both checks pass, the try block is entered
EnterTry ==
    /\ pc = "loop" /\ i < Len(assets)
    /\ ~ShortSeries(Series(asset))
    /\ ~ShortReturns(LogReturns(Series(asset)))
    /\ ret' = LogReturns(Series(asset))
    /\ trace' = Append(trace, Enter)
    /\ pc' = "try"
    /\ UNCHANGED <<upload, df_prices, all_returns, all_stdevs, all_var_99,
                   model_params, i, sigma2, workbook>>

\* an exception inside the try block after the parameters were read:
\* sigma2[99] on an array shorter than 100, or a column assignment of a
\* series whose index has a repeated label
RaisesAfterFit(r) == Len(r) <= SeedIdx \/ SetRaises(all_returns, r)

\* lines 66-67, 105-108: the fitter raises
FitFails ==
    /\ pc = "try"
    /\ trace' = trace \o <<FitCall, Progress>>
    /\ i' = i + 1
    /\ ret' = <<>>
    /\ pc' = "loop"
    /\ UNCHANGED <<upload, df_prices, all_returns, all_stdevs, all_var_99,
                   model_params, sigma2, workbook>>

\* lines 66-81, 105-108: the fitter returns, the row is appended, and a later
\* statement of the try block raises
RaisedAfterFit ==
    /\ pc = "try"
    /\ RaisesAfterFit(ret)
    /\ \E p \in FitParams :
          \E vals \in {Values(ret)} :
              /\ model_params' = Append(model_params, ParamRow(asset, p))
              /\ sigma2' = IF Len(ret) <= SeedIdx THEN sigma2
                           ELSE [sigma2 EXCEPT ![asset] =
                                    Sigma2(vals, p.omega, p.alpha, p.beta)]
    /\ trace' = trace \o <<FitCall, Progress>>
    /\ i' = i + 1
    /\ ret' = <<>>
    /\ pc' = "loop"
    /\ UNCHANGED <<upload, df_prices, all_returns, all_stdevs, all_var_99, workbook>>

\* lines 66-103, 108: the whole try block runs
Processed ==
    /\ pc = "try"
    /\ ~RaisesAfterFit(ret)
    /\ \E p \in FitParams :
          \E vals \in {Values(ret)} :
          \E s2 \in {Sigma2(vals, p.omega, p.alpha, p.beta)} :
          \E stdev \in {Stdev(s2)} :
          \E t_quantile \in {TQuantile(p.nu)} :
          \E sd \in {WithIndex(stdev, ret)} :
          \E vr \in {WithIndex(Var99(t_quantile, stdev), ret)} :
              /\ model_params' = Append(model_params, ParamRow(asset, p))
              /\ sigma2' = [sigma2 EXCEPT ![asset] = s2]
              /\ all_returns' = SetColumn(all_returns, asset, ret, NaN)
              /\ all_stdevs' = SetColumn(all_stdevs, asset, sd, SurdNaN)
              /\ all_var_99' = SetColumn(all_var_99, asset, vr, SurdNaN)
    /\ trace' = trace \o <<FitCall, Progress>>
    /\ i' = i + 1
    /\ ret' = <<>>
    /\ pc' = "loop"
    /\ UNCHANGED <<upload, df_prices, workbook>>

\* save_fmt(df, name, high): the sheet, its asset columns, the marked row
Sheet(name, cols, high) ==
    [name |-> name, assets |-> cols, marker |-> IF high THEN MarkerRow ELSE -1]
ParamAssets == [j \in 1..Len(model_params) |-> model_params[j].Asset]

\* lines 113-150: the loop is over, the report is written
SaveWorkbook ==
    /\ pc = "loop"
    /\ i = Len(assets)
    /\ workbook' = << Sheet("Original_Prices", df_prices.columns, FALSE),
                      Sheet("Returns_Scaled", all_returns.columns, FALSE),
                      Sheet("GARCH_Stdev", all_stdevs.columns, TRUE),
                      Sheet("GARCH_VaR", all_var_99.columns, TRUE),
                      Sheet("Model_Parameters", ParamAssets, FALSE) >>
    /\ pc' = "done"
    /\ UNCHANGED <<upload, df_prices, all_returns, all_stdevs, all_var_99,
                   model_params, i, ret, sigma2, trace>>

Next ==
    \/ ReadPrices
    \/ SkipShortSeries
    \/ SkipShortReturns
    \/ EnterTry
    \/ FitFails
    \/ RaisedAfterFit
    \/ Processed
    \/ SaveWorkbook

Spec == Init /\ [][Next]_vars

\* ------------------------------------------------------------------------
\* The Variance Reconstructor on its own: lines 84-94 applied to a return
\* series and a parameter set drawn from a grid wider than what the fitter
\* returns (negative alpha and beta included)
\* ------------------------------------------------------------------------
PriceSeries(pat, lead) ==
    [j \in 1..(NRows - lead) |-> [lab |-> j + lead, val |-> R(PriceAt(pat, j + lead), 1)]]
CoreReturns == {LogReturns(PriceSeries(pat, lead)) : pat \in {1, 2}, lead \in 0..(Extra - 1)}
CoreParams ==
    [omega : {Zero, R(1, 2)}, alpha : {R(-1, 2), Zero, R(1, 2)},
     beta : {R(-1, 2), Zero, R(1, 2), One}, nu : {5}]

CoreInit ==
    /\ upload = [dates |-> <<>>, cols |-> NoData]
    /\ pc = "core"
    /\ df_prices = EmptyFrame(<<>>)
    /\ all_returns = EmptyFrame(<<>>)
    /\ all_stdevs = EmptyFrame(<<>>)
    /\ all_var_99 = EmptyFrame(<<>>)
    /\ \E p \in CoreParams : model_params = <<ParamRow(Assets[1], p)>>
    /\ i = 0
    /\ ret \in CoreReturns
    /\ sigma2 = NoData
    /\ trace = <<>>
    /\ workbook = <<>>

CoreReconstruct ==
    /\ pc = "core"
    /\ \E vals \in {Values(ret)} :
          sigma2' = [sigma2 EXCEPT ![Assets[1]] =
                        Sigma2(vals, model_params[1].Omega, model_params[1].Alpha,
                               model_params[1].Beta)]
    /\ pc' = "core_done"
    /\ UNCHANGED <<upload, df_prices, all_returns, all_stdevs, all_var_99,
                   model_params, i, ret, trace, workbook>>

CoreNext == CoreReconstruct

CoreSpec == CoreInit /\ [][CoreNext]_vars

\* ------------------------------------------------------------------------
\* Properties
\* ------------------------------------------------------------------------
\* number of numeric cells of an asset's raw column: its dense price series
DenseLen(a) == Cardinality({r \in 1..NRows : upload.cols[a][r].k = "num"})
InSeq(a, q) == \E j \in 1..Len(q) : q[j] = a
InSheet(k, a) == InSeq(a, workbook[k].assets)
HasParamRow(a) == \E j \in 1..Len(model_params) : model_params[j].Asset = a
ParamsOf(a) == model_params[CHOOSE j \in 1..Len(model_params) : model_params[j].Asset = a]
FitCalledAt(k) == \E j \in 1..Len(trace) : trace[j].ev = "fit" /\ trace[j].i = k
AssetIdx(a) == CHOOSE j \in 1..Len(assets) : assets[j] = a
FitCalledFor(a) == InSeq(a, assets) /\ FitCalledAt(AssetIdx(a))
InAllResults(a) ==
    HasColumn(all_returns, a) /\ HasColumn(all_stdevs, a) /\ HasColumn(all_var_99, a)
InNoResult(a) ==
    ~HasColumn(all_returns, a) /\ ~HasColumn(all_stdevs, a) /\ ~HasColumn(all_var_99, a)

\* C1: when the batch is over, every asset is in all of Returns, Stdevs, VaR
\* and the parameter summary, or in none of them.
C1_FullExclusion ==
    pc = "done" =>
    \A a \in AssetNames :
        \/ InSheet(2, a) /\ InSheet(3, a) /\ InSheet(4, a) /\ InSheet(5, a)
        \/ ~InSheet(2, a) /\ ~InSheet(3, a) /\ ~InSheet(4, a) /\ ~InSheet(5, a)

\* C2: an asset with fewer than 100 valid prices is in none of the
\* five sheets, Original_Prices included.
C2_AbsentFromAllFive ==
    pc = "done" =>
    \A a \in AssetNames :
        DenseLen(a) < MinObs => \A k \in 1..5 : ~InSheet(k, a)

\* C3: the loop runs to its end; every asset with at least 100 returns whose
\* fit succeeded has its column in Returns, Stdevs and VaR and its parameter
\* row; every rejected asset and every asset whose fit failed has nothing.
C3_FailureIsolation ==
    pc = "done" =>
    /\ i = Len(assets)
    /\ \A a \in AssetNames :
          IF DenseLen(a) - 1 >= MinObs /\ HasParamRow(a)
          THEN InAllResults(a)
          ELSE InNoResult(a) /\ ~HasParamRow(a)

\* C4: the progress bar is advanced exactly once per asset, in column order,
\* with the value k / n at the k-th call, after asset k is entered (and
\* fitted, if it is) and before asset k + 1 is entered, whatever the outcome.
IsProgress(e) == e.ev = "progress"
ProgressCalls == SelectSeq(trace, IsProgress)
C4_ProgressOncePerAsset ==
    /\ Len(ProgressCalls) = i
    /\ pc = "done" => i = Len(assets)
    /\ \A k \in 1..Len(ProgressCalls) :
          /\ ProgressCalls[k].i = k
          /\ ProgressCalls[k].val.n * Len(assets) = k * ProgressCalls[k].val.d
    /\ \A j \in 1..Len(trace) :
          LET e == trace[j]
          IN  /\ e.ev = "asset" =>
                    \/ j = 1 /\ e.i = 1
                    \/ j > 1 /\ trace[j - 1].ev = "progress" /\ trace[j - 1].i = e.i - 1
              /\ e.ev = "fit" => j > 1 /\ trace[j - 1].ev = "asset" /\ trace[j - 1].i = e.i
              /\ e.ev = "progress" =>
                    j > 1 /\ trace[j - 1].ev \in {"asset", "fit"} /\ trace[j - 1].i = e.i
    /\ pc = "try" => trace[Len(trace)].ev = "asset" /\ trace[Len(trace)].i = i + 1

\* a batch of two assets: the first rejected, the second processed
C4_Witness ==
    /\ pc = "done"
    /\ Len(assets) = 2
    /\ DenseLen(assets[1]) < MinObs
    /\ HasColumn(all_var_99, assets[2])
    /\ Len(ProgressCalls) = 2

\* C5: the variance path of a return series of length T >= 100 has length T,
\* entries 0..98 are undefined, entry 99 is the seed, every entry t in
\* 100..T-1 is omega + alpha * return[t-1]^2 + beta * path[t-1], and for
\* T = 100 the seed is the only defined entry.
C5_VariancePath ==
    pc = "core_done" =>
    LET path == sigma2[Assets[1]]
        T == Len(ret)
        p == model_params[1]
        Ret2(t) == RMul(At(ret, t).val, At(ret, t).val)
    IN  /\ T >= MinObs
        /\ Len(path) = T
        /\ \A t \in 0..(SeedIdx - 1) : IsNaN(At(path, t))
        /\ ~IsNaN(At(path, SeedIdx))
        /\ \A t \in MinObs..(T - 1) :
              At(path, t) =
                  RAdd(RAdd(p.Omega, RMul(p.Alpha, Ret2(t - 1))),
                       RMul(p.Beta, At(path, t - 1)))
        /\ T = MinObs => Cardinality({t \in 0..(T - 1) : ~IsNaN(At(path, t))}) = 1

\* a series of more than 101 moving returns, alpha and beta not zero
C5_Witness ==
    /\ pc = "core_done"
    /\ Len(ret) > MinObs + 1
    /\ model_params[1].Alpha.n # 0
    /\ model_params[1].Beta.n # 0
    /\ At(ret, MinObs).val # At(ret, MinObs - 1).val
    /\ ~IsNaN(At(sigma2[Assets[1]], Len(ret) - 1))

\* C6: for every asset whose variance path was built, path[99] is the
\* population variance of its first 100 returns (divisor 100):
\* 100^2 * path[99] = 100 * sum(r^2) - (sum r)^2 over returns 0..99.
RECURSIVE IntSum(_, _, _)
IntSum(F(_), lo, hi) ==
    IF lo > hi THEN 0
    ELSE IF lo = hi THEN F(lo)
    ELSE IntSum(F, lo, (lo + hi) \div 2) + IntSum(F, (lo + hi) \div 2 + 1, hi)
C6_SeedIsPopulationVariance ==
    \A a \in AssetNames :
        sigma2[a] # <<>> =>
        \A rs \in {LogReturns(Series(a))} :
        LET r1(j) == rs[j].val.n
            r2(j) == rs[j].val.n * rs[j].val.n
            s1 == IntSum(r1, 1, MinObs)
            s2 == IntSum(r2, 1, MinObs)
            seed == At(sigma2[a], SeedIdx)
        IN  /\ ~IsNaN(seed)
            /\ seed.n * MinObs * MinObs = seed.d * (MinObs * s2 - s1 * s1)

\* a processed asset with more than 100 returns and a positive seed
C6_Witness ==
    \E a \in AssetNames :
        /\ HasColumn(all_stdevs, a)
        /\ Len(sigma2[a]) > MinObs
        /\ At(sigma2[a], SeedIdx).n > 0

FirstDefinedRow(col) == CHOOSE r \in 1..Len(col) : ~SIsNaN(col[r]) /\ \A q \in 1..(r - 1) : SIsNaN(col[q])
C9_MarkerOnSeedRow ==
    pc = "done" =>
    /\ \A a \in AssetNames :
          InSheet(3, a) => workbook[3].marker = FirstDefinedRow(all_stdevs.data[a])
    /\ \A a \in AssetNames :
          InSheet(4, a) => workbook[4].marker = FirstDefinedRow(all_var_99.data[a])

\* C10: the fitter is called, and a parameter row recorded, only for a return
\* series of at least 100 entries; the return series is one entry shorter
\* than the dense price series, so an asset with exactly 100 valid prices is
\* never fitted.
C10_ReturnFloor ==
    /\ \A j \in 1..Len(trace) :
          trace[j].ev = "fit" =>
              /\ trace[j].val.n >= MinObs
              /\ trace[j].val.n = DenseLen(assets[trace[j].i]) - 1
    /\ pc = "try" => Len(ret) = DenseLen(asset) - 1
    /\ \A a \in AssetNames :
          HasParamRow(a) => FitCalledFor(a) /\ DenseLen(a) - 1 >= MinObs
    /\ \A a \in AssetNames :
          DenseLen(a) = MinObs => ~FitCalledFor(a) /\ ~HasParamRow(a)

\* an asset with exactly 100 valid prices went through the loop unfitted
C10_Witness ==
    /\ pc = "done"
    /\ \E a \in AssetNames :
          DenseLen(a) = MinObs /\ InSeq(a, assets) /\ ~FitCalledFor(a) /\ InSheet(1, a)

====
